---------------------------- MODULE Spec2Model ----------------------------
(***************************************************************************)
(* Model of mltu/torch/callbacks.py: the EarlyStopping and ModelCheckpoint *)
(* callbacks, driven through their hooks by a training loop.               *)
(*                                                                         *)
(* Monitored values are Python floats.  A float is modelled as a record    *)
(* [k, v]: a finite number (k = "num", v an integer), an infinity          *)
(* (k = "inf", v = 1 or -1) or NaN (k = "nan").  Python's None is the      *)
(* record None.  Comparisons and additions follow IEEE-754 as numpy        *)
(* computes them: every comparison with NaN is false, inf - d = inf.       *)
(***************************************************************************)
EXTENDS Integers, Sequences, FiniteSets, TLC

(***************************************************************************)
(* Bounds of the model.                                                    *)
(***************************************************************************)
\* largest finite monitored value; finite values are 0..MaxValue
MaxValue == 1
\* largest min_delta configured
MaxDelta == 1
\* largest patience configured
MaxPatience == 2
\* on_epoch_end calls the loop makes per run
MaxEpochs == 3
\* number of runs (on_train_begin .. on_train_end) on the same instances
MaxRuns == 2

(***************************************************************************)
(* Floats and None.                                                        *)
(***************************************************************************)
Num(n) == [k |-> "num", v |-> n]
PosInf == [k |-> "inf", v |-> 1]
NegInf == [k |-> "inf", v |-> -1]
NaN == [k |-> "nan", v |-> 0]
None == [k |-> "none", v |-> 0]

IsNaN(a) == a.k = "nan"
IsFinite(a) == a.k = "num"

\* a + b on floats: inf + (-inf) is NaN, NaN is absorbing
FAdd(a, b) ==
    IF IsNaN(a) \/ IsNaN(b) THEN NaN
    ELSE IF IsFinite(a) /\ IsFinite(b) THEN Num(a.v + b.v)
    ELSE IF IsFinite(a) THEN b
    ELSE IF IsFinite(b) THEN a
    ELSE IF a.v = b.v THEN a
    ELSE NaN

FNeg(a) == IF IsNaN(a) THEN NaN ELSE [k |-> a.k, v |-> 0 - a.v]

FSub(a, b) == FAdd(a, FNeg(b))

\* position of a non-NaN float on the extended real line, as a pair
\* compared lexicographically
Tier(a) == IF IsFinite(a) THEN 0 ELSE a.v
Mag(a) == IF IsFinite(a) THEN a.v ELSE 0

np_less(a, b) ==
    /\ ~IsNaN(a)
    /\ ~IsNaN(b)
    /\ \/ Tier(a) < Tier(b)
       \/ Tier(a) = Tier(b) /\ Mag(a) < Mag(b)

np_less_equal(a, b) ==
    /\ ~IsNaN(a)
    /\ ~IsNaN(b)
    /\ \/ Tier(a) < Tier(b)
       \/ Tier(a) = Tier(b) /\ Mag(a) <= Mag(b)

np_greater(a, b) == np_less(b, a)

np_greater_equal(a, b) == np_less_equal(b, a)

(***************************************************************************)
(* Configuration domains and the logs the loop passes.                     *)
(***************************************************************************)
Modes == {"min", "max", "max_equal", "min_equal"}

Values == {Num(n) : n \in 0..MaxValue} \cup {PosInf, NegInf, NaN}

\* a str is a sequence of characters; the keys of the logs
key_loss == <<"l", "o", "s", "s">>
key_val_loss == <<"v", "a", "l", "_", "l", "o", "s", "s">>
key_CER == <<"C", "E", "R">>
key_val_CER == <<"v", "a", "l", "_", "C", "E", "R">>
key_val_ == <<"v", "a", "l", "_">>
key_Val_loss == <<"V", "a", "l", "_", "l", "o", "s", "s">>

\* a log is a dict: a sequence of key/value entries in insertion order
Entry(key, value) == [key |-> key, value |-> value]

LogSet ==
    {<<Entry(key_loss, Num(1))>>}
        \cup {<<Entry(key_loss, Num(1)), Entry(key_val_loss, x)>> :
                    x \in Values}

\* the logs TensorBoard is passed: the keys in either order, keys with
\* capitals, the bare prefix, and the empty log
TBLogSet ==
    {<< >>,
     <<Entry(key_loss, Num(1))>>,
     <<Entry(key_loss, Num(1)), Entry(key_val_loss, Num(0))>>,
     <<Entry(key_val_loss, Num(0)), Entry(key_loss, Num(1))>>,
     <<Entry(key_val_CER, Num(1)), Entry(key_CER, Num(0)),
       Entry(key_loss, Num(1))>>,
     <<Entry(key_Val_loss, Num(1)), Entry(key_val_, Num(0))>>}

\* dict.get(key): the value of the entry with that key, None when absent
logs_get(lg, key) ==
    IF \E i \in 1..Len(lg) : lg[i].key = key
    THEN lg[CHOOSE i \in 1..Len(lg) : lg[i].key = key].value
    ELSE None

\* the monitor both callbacks are constructed with (the default)
monitor == key_val_loss

\* the elements of a sequence
Range(s) == {s[i] : i \in 1..Len(s)}

\* the epoch index a run starts from
InitialEpochs == {0, 1}

\* the lists of callbacks a training loop is given: one controller each
CallbackLists ==
    {<<"EarlyStopping">>, <<"ModelCheckpoint">>, <<"TensorBoard">>,
     <<"Model2onnx">>}

\* names of parameters, and the tag of the learning rates
name_w == <<"w">>
name_b == <<"b">>
learning_rate ==
    <<"l", "e", "a", "r", "n", "i", "n", "g", "_", "r", "a", "t", "e">>

\* the lr of the optimizer's param_groups and the (name, data) pairs of
\* named_parameters() of the models TensorBoard is given
ParamGroups == {<< >>, <<Num(1)>>, <<Num(1), Num(0)>>}
NamedParameters ==
    {<< >>, <<Entry(name_w, Num(0))>>,
     <<Entry(name_w, Num(0)), Entry(name_b, Num(1))>>}

\* the metadata argument of Model2onnx: None, dicts of str to str, and a
\* list of pairs, which is no dict
Metadata ==
    {[type |-> "NoneType", items |-> << >>],
     [type |-> "dict", items |-> << >>],
     [type |-> "dict", items |-> <<Entry("author", "x")>>],
     [type |-> "dict",
      items |-> <<Entry("author", "x"), Entry("version", "1")>>],
     [type |-> "list", items |-> <<Entry("author", "x")>>]}

VARIABLES
    \* the list of callbacks the training loop holds
    callbacks,
    \* EarlyStopping: self.mode, self.min_delta, self.patience, self.verbose
    es_mode, es_min_delta, es_patience, es_verbose,
    \* EarlyStopping: self.wait, self.stopped_epoch, self.best
    es_wait, es_stopped_epoch, es_best,
    \* ModelCheckpoint: self.mode, self.save_best_only, self.verbose, self.best
    mc_mode, mc_save_best_only, mc_verbose, mc_best,
    \* self.model.stop_training, and the number of self.model.save calls the
    \* hook called last has made
    stop_training, saves,
    \* the loop: where it is in a run, the runs started, the index of the
    \* run's first epoch, the on_epoch_end calls made in the run
    phase, run, initial_epoch, calls,
    \* the hook called last, the log it was passed, whether it raised
    hook, logs, raised,
    \* the monitored values the on_epoch_end calls of the run have passed to
    \* EarlyStopping or ModelCheckpoint, and the epoch argument of each call
    seen, seen_at,
    \* the self.model.save calls made in the run and the epoch argument of
    \* the save_model call that made the last of them
    saved, saved_epoch,
    \* what the hook called last has passed to self.logger.info
    report,
    \* TensorBoard: self.model.optimizer.param_groups and
    \* self.model.model.named_parameters()
    param_groups, named_parameters,
    \* TensorBoard: self.writer, the SummaryWriter objects constructed so far,
    \* whether close() was the last call on the writer
    tb_writer, writers, tb_closed,
    \* the add_scalar and add_histogram calls the hook called last has made
    sink,
    \* Model2onnx: self.metadata
    m2o_metadata,
    \* Model2onnx: the calls on_train_end has made when it was called last,
    \* and the file at self.onnx_model_path
    trace, artifact

\* cb is one of the callbacks the loop calls
installed(cb) == \E i \in 1..Len(callbacks) : callbacks[i] = cb

\* one of the callbacks that read the monitored value is called
monitoring == installed("EarlyStopping") \/ installed("ModelCheckpoint")

\* the logs the loop passes to on_epoch_end
EpochLogs == IF installed("TensorBoard") THEN TBLogSet ELSE LogSet

es_config == <<es_mode, es_min_delta, es_patience, es_verbose>>
es_state == <<es_wait, es_stopped_epoch, es_best>>
mc_config == <<mc_mode, mc_save_best_only, mc_verbose>>
mc_out == <<saves, saved, saved_epoch>>
tb_config == <<param_groups, named_parameters>>
tb_state == <<tb_writer, writers, tb_closed>>
m2o_out == <<trace, artifact>>
config == <<callbacks, es_config, mc_config, tb_config, m2o_metadata>>
vars ==
    <<callbacks, es_config, es_state, mc_config, mc_best, stop_training,
      saves, phase, run, initial_epoch, calls, hook, logs, raised, seen,
      seen_at, saved, saved_epoch, report, tb_config, tb_state, sink,
      m2o_metadata, trace, artifact>>

\* None for the int-valued attributes wait and stopped_epoch, which hold None
\* from construction until on_train_begin assigns them
NoneInt == -1

\* the messages of self.logger.info: none, "Epoch e: early stopping",
\* "Epoch e: m got b, saving ..." and "Epoch e: m improved from p to b, ..."
NoReport ==
    [kind |-> "none", epoch |-> NoneInt, previous |-> None, best |-> None]
Message(kind, epoch, previous, best) ==
    [kind |-> kind, epoch |-> epoch, previous |-> previous, best |-> best]


(***************************************************************************)
(* Callback.get_monitor_value: the monitored entry of the log, None (with  *)
(* a warning, and no exception) when the log has no such key.              *)
(***************************************************************************)
\* logs.get(self.monitor, 0.0): a default instead of None
get_monitor_value_default(lg, mon) ==
    IF logs_get(lg, mon) = None THEN Num(0) ELSE logs_get(lg, mon)

get_monitor_value(lg, mon) == logs_get(lg, mon)

\* np.inf whatever the mode
default_best_inf(mode) == PosInf

\* the value np.inf / -np.Inf that on_train_begin gives best
default_best(mode) ==
    IF mode = "min" \/ mode = "min_equal" THEN PosInf ELSE NegInf

(***************************************************************************)
(* EarlyStopping.                                                          *)
(***************************************************************************)
\* the chain with np.less in the min_equal branch
ES_improved_strict(mode, current, best, min_delta) ==
    \/ mode = "min" /\ np_less(current, FSub(best, min_delta))
    \/ mode = "max" /\ np_greater(current, FAdd(best, min_delta))
    \/ mode = "min_equal" /\ np_less(current, FSub(best, min_delta))
    \/ mode = "max_equal" /\ np_greater_equal(current, FAdd(best, min_delta))

\* the if/elif chain of on_epoch_end: TRUE when one of the four branches
\* that assign best and reset wait is taken
ES_improved(mode, current, best, min_delta) ==
    \/ mode = "min" /\ np_less(current, FSub(best, min_delta))
    \/ mode = "max" /\ np_greater(current, FAdd(best, min_delta))
    \/ mode = "min_equal" /\ np_less_equal(current, FSub(best, min_delta))
    \/ mode = "max_equal" /\ np_greater_equal(current, FAdd(best, min_delta))

\* on_train_begin that resets wait only while it is None
ES_on_train_begin_keep_wait ==
    /\ es_wait' = (IF es_wait = NoneInt THEN 0 ELSE es_wait)
    /\ es_stopped_epoch' = 0
    /\ es_best' = default_best(es_mode)

ES_on_train_begin ==
    /\ es_wait' = 0
    /\ es_stopped_epoch' = 0
    /\ es_best' = default_best(es_mode)

\* on_epoch_end raises TypeError when best is still None (no on_train_begin
\* yet) and a monitored value is there to be compared with it
ES_raises(lg) ==
    /\ get_monitor_value(lg, monitor) # None
    /\ es_best = None

\* the patience test made one epoch early
ES_stop_early(epoch, w) ==
    IF w + 1 >= es_patience
    THEN /\ es_stopped_epoch' = epoch
         /\ stop_training' = TRUE
    ELSE UNCHANGED <<es_stopped_epoch, stop_training>>

\* the patience test with > for >=
ES_stop_late(epoch, w) ==
    IF w > es_patience
    THEN /\ es_stopped_epoch' = epoch
         /\ stop_training' = TRUE
    ELSE UNCHANGED <<es_stopped_epoch, stop_training>>

\* the stop recorded on the callback, the model's flag left alone
ES_stop_no_flag(epoch, w) ==
    IF w >= es_patience
    THEN /\ es_stopped_epoch' = epoch
         /\ UNCHANGED stop_training
    ELSE UNCHANGED <<es_stopped_epoch, stop_training>>

\* what the else branch does once wait has been incremented to w
ES_stop(epoch, w) ==
    IF w >= es_patience
    THEN /\ es_stopped_epoch' = epoch
         /\ stop_training' = TRUE
    ELSE UNCHANGED <<es_stopped_epoch, stop_training>>

\* on_epoch_end whose improving branches do not reset wait
ES_on_epoch_end_no_reset(epoch, lg) ==
    LET current == get_monitor_value(lg, monitor) IN
    IF current = None \/ ES_raises(lg)
    THEN UNCHANGED <<es_state, stop_training>>
    ELSE IF ES_improved(es_mode, current, es_best, Num(es_min_delta))
    THEN /\ es_best' = current
         /\ UNCHANGED <<es_wait, es_stopped_epoch, stop_training>>
    ELSE /\ es_wait' = es_wait + 1
         /\ es_best' = es_best
         /\ ES_stop(epoch, es_wait + 1)

\* on_epoch_end whose improving branches also clear the model's flag
ES_on_epoch_end_clears(epoch, lg) ==
    LET current == get_monitor_value(lg, monitor) IN
    IF current = None \/ ES_raises(lg)
    THEN UNCHANGED <<es_state, stop_training>>
    ELSE IF ES_improved(es_mode, current, es_best, Num(es_min_delta))
    THEN /\ es_best' = current
         /\ es_wait' = 0
         /\ stop_training' = FALSE
         /\ UNCHANGED es_stopped_epoch
    ELSE /\ es_wait' = es_wait + 1
         /\ es_best' = es_best
         /\ ES_stop(epoch, es_wait + 1)

ES_on_epoch_end(epoch, lg) ==
    LET current == get_monitor_value(lg, monitor) IN
    IF current = None \/ ES_raises(lg)
    THEN UNCHANGED <<es_state, stop_training>>
    ELSE IF ES_improved(es_mode, current, es_best, Num(es_min_delta))
    THEN /\ es_best' = current
         /\ es_wait' = 0
         /\ UNCHANGED <<es_stopped_epoch, stop_training>>
    ELSE /\ es_wait' = es_wait + 1
         /\ es_best' = es_best
         /\ ES_stop(epoch, es_wait + 1)

\* on_train_end that reports whenever verbose is set
ES_on_train_end_always ==
    /\ UNCHANGED es_state
    /\ report' = IF es_verbose
                 THEN Message("early stopping", es_stopped_epoch, None, None)
                 ELSE NoReport

\* on_train_end only reports; it assigns nothing
ES_on_train_end ==
    /\ UNCHANGED es_state
    /\ report' = IF es_stopped_epoch > 0 /\ es_verbose
                 THEN Message("early stopping", es_stopped_epoch, None, None)
                 ELSE NoReport

(***************************************************************************)
(* ModelCheckpoint.                                                        *)
(***************************************************************************)
\* np.less selected for min_equal as well
monitor_op_strict(mode, a, b) ==
    IF mode = "min" THEN np_less(a, b)
    ELSE IF mode = "max" THEN np_greater(a, b)
    ELSE IF mode = "min_equal" THEN np_less(a, b)
    ELSE np_greater_equal(a, b)

\* the comparison __init__ selects for the mode
monitor_op(mode, a, b) ==
    IF mode = "min" THEN np_less(a, b)
    ELSE IF mode = "max" THEN np_greater(a, b)
    ELSE IF mode = "min_equal" THEN np_less_equal(a, b)
    ELSE np_greater_equal(a, b)

MC_on_train_begin == mc_best' = default_best(mc_mode)

\* monitor_op(current, None) raises TypeError
MC_raises(lg) ==
    /\ get_monitor_value(lg, monitor) # None
    /\ mc_best = None

\* save_model: the report when verbose, then one call of the model's save;
\* saves counts the calls the hook being dispatched makes
save_model(epoch, best, previous) ==
    /\ report' = IF ~mc_verbose THEN NoReport
                 ELSE IF previous = None
                 THEN Message("got", epoch, None, best)
                 ELSE Message("improved", epoch, previous, best)
    /\ saves' = 1
    /\ saved' = saved + 1
    /\ saved_epoch' = epoch

\* on_epoch_end returns without a call of save_model
MC_no_save ==
    /\ saves' = 0
    /\ report' = NoReport
    /\ UNCHANGED <<saved, saved_epoch>>

\* the else branch with the test of save_best_only inverted
MC_not_improved_inverted(epoch, current) ==
    IF mc_save_best_only THEN save_model(epoch, current, None) ELSE MC_no_save

\* the else branch of on_epoch_end: the epoch is no improvement
MC_not_improved(epoch, current) ==
    IF ~mc_save_best_only THEN save_model(epoch, current, None) ELSE MC_no_save

MC_on_epoch_end(epoch, lg) ==
    LET current == get_monitor_value(lg, monitor) IN
    IF current = None \/ MC_raises(lg)
    THEN /\ mc_best' = mc_best
         /\ MC_no_save
    ELSE IF monitor_op(mc_mode, current, mc_best)
    THEN /\ mc_best' = current
         /\ save_model(epoch, current, mc_best)
    ELSE /\ mc_best' = mc_best
         /\ MC_not_improved(epoch, current)

(***************************************************************************)
(* TensorBoard.  self.writer is None or the SummaryWriter on_train_begin   *)
(* has constructed, named by its number in the order of construction.      *)
(***************************************************************************)
NoWriter == 0

\* a call on the writer
Call(op, tag, value, step) ==
    [op |-> op, tag |-> tag, value |-> value, step |-> step]

\* on_train_begin constructing a SummaryWriter at every call
TB_on_train_begin_always ==
    /\ tb_writer' = writers + 1
    /\ writers' = writers + 1
    /\ tb_closed' = FALSE

TB_on_train_begin ==
    IF tb_writer = NoWriter
    THEN /\ tb_writer' = writers + 1
         /\ writers' = writers + 1
         /\ tb_closed' = FALSE
    ELSE UNCHANGED tb_state

LowerCase ==
    <<"a", "b", "c", "d", "e", "f", "g", "h", "i", "j", "k", "l", "m",
      "n", "o", "p", "q", "r", "s", "t", "u", "v", "w", "x", "y", "z">>
UpperCase ==
    <<"A", "B", "C", "D", "E", "F", "G", "H", "I", "J", "K", "L", "M",
      "N", "O", "P", "Q", "R", "S", "T", "U", "V", "W", "X", "Y", "Z">>

\* str.upper and str.lower of one character
upper(c) ==
    IF \E i \in 1..Len(LowerCase) : LowerCase[i] = c
    THEN UpperCase[CHOOSE i \in 1..Len(LowerCase) : LowerCase[i] = c]
    ELSE c
lower(c) ==
    IF \E i \in 1..Len(UpperCase) : UpperCase[i] = c
    THEN LowerCase[CHOOSE i \in 1..Len(UpperCase) : UpperCase[i] = c]
    ELSE c

\* str.capitalize: the first character upper case, the others lower case
capitalize(str) ==
    [i \in 1..Len(str) |-> IF i = 1 THEN upper(str[i]) ELSE lower(str[i])]

\* str.startswith
startswith(str, prefix) ==
    /\ Len(str) >= Len(prefix)
    /\ SubSeq(str, 1, Len(prefix)) = prefix

parse_key(key) ==
    IF startswith(key, <<"v", "a", "l", "_">>)
    THEN capitalize(SubSeq(key, 5, Len(key))) \o <<"/", "t", "e", "s", "t">>
    ELSE capitalize(key) \o <<"/", "t", "r", "a", "i", "n">>

\* the add_scalar calls of the loop over logs.items()
log_scalars(epoch, lg) ==
    [i \in 1..Len(lg) |->
        Call("add_scalar", parse_key(lg[i].key), lg[i].value, epoch)]

update_lr(epoch) ==
    [i \in 1..Len(param_groups) |->
        Call("add_scalar", learning_rate, param_groups[i], epoch)]

update_histogram(epoch) ==
    [i \in 1..Len(named_parameters) |->
        Call("add_histogram", named_parameters[i].key,
             named_parameters[i].value, epoch)]

\* the first call on a writer that is None raises AttributeError
TB_raises(lg) ==
    /\ tb_writer = NoWriter
    /\ Len(lg) + Len(param_groups) + Len(named_parameters) > 0

\* on_epoch_end updating the learning rates before the scalars of the log
TB_on_epoch_end_lr_first(epoch, lg) ==
    /\ sink' = IF tb_writer = NoWriter
               THEN << >>
               ELSE update_lr(epoch) \o log_scalars(epoch, lg)
                        \o update_histogram(epoch)
    /\ tb_closed' = (tb_closed /\ sink' = << >>)
    /\ UNCHANGED <<tb_writer, writers>>

TB_on_epoch_end(epoch, lg) ==
    /\ sink' = IF tb_writer = NoWriter
               THEN << >>
               ELSE log_scalars(epoch, lg) \o update_lr(epoch)
                        \o update_histogram(epoch)
    /\ tb_closed' = (tb_closed /\ sink' = << >>)
    /\ UNCHANGED <<tb_writer, writers>>

\* in the loop on_train_end follows on_train_begin: the writer is not None
TB_on_train_end ==
    /\ tb_closed' = TRUE
    /\ sink' = << >>
    /\ UNCHANGED <<tb_writer, writers>>

(***************************************************************************)
(* Model2onnx.on_train_end: a sequence of calls into torch and onnx, each  *)
(* of which may raise; no statement of the method catches an exception.    *)
(***************************************************************************)
\* the file torch.onnx.export writes: no metadata_props
Exported == [exists |-> TRUE, metadata_props |-> << >>]
NoArtifact == [exists |-> FALSE, metadata_props |-> << >>]

\* the calls up to torch.onnx.export, in the order of the statements
ExportCalls ==
    <<"torch.load", "to", "eval", "torch.randn", "torch.onnx.export">>
\* the calls of the metadata block
MetadataCalls == <<"onnx.load", "onnx.save">>

\* `self.metadata and isinstance(self.metadata, dict)`
embeds_metadata ==
    /\ m2o_metadata.items # << >>
    /\ m2o_metadata.type = "dict"

\* the calls on_train_end makes when none raises
M2O_calls ==
    IF embeds_metadata THEN ExportCalls \o MetadataCalls ELSE ExportCalls

\* the calls on_train_end makes when the call `fail` raises: those up to it
CallsUpTo(fail) ==
    IF \E i \in 1..Len(M2O_calls) : M2O_calls[i] = fail
    THEN SubSeq(M2O_calls, 1,
                CHOOSE i \in 1..Len(M2O_calls) : M2O_calls[i] = fail)
    ELSE M2O_calls

\* the calls of the sequence s that returned
Returned(s, fail) == SelectSeq(s, LAMBDA c : c # fail)

has(s, c) == \E i \in 1..Len(s) : s[i] = c

\* the calls s with what became of each
Outcomes(s, fail) ==
    [i \in 1..Len(s) |->
        [call |-> s[i],
         outcome |-> IF s[i] = fail THEN "raised" ELSE "returned"]]

\* the file after the calls s: onnx.save writes the exported model with one
\* metadata_props record per item of self.metadata, in the order of the items
Written(s, fail) ==
    IF has(Returned(s, fail), "onnx.save")
    THEN [exists |-> TRUE, metadata_props |-> m2o_metadata.items]
    ELSE IF has(Returned(s, fail), "torch.onnx.export")
    THEN Exported
    ELSE artifact

\* on_train_end going on after a call has raised
M2O_on_train_end_swallow(fail) ==
    /\ trace' = Outcomes(M2O_calls, fail)
    /\ artifact' = Written(M2O_calls, fail)

\* on_train_end with no metadata block
M2O_on_train_end_no_metadata(fail) ==
    LET made == SubSeq(CallsUpTo(fail), 1,
                       IF Len(CallsUpTo(fail)) < Len(ExportCalls)
                       THEN Len(CallsUpTo(fail)) ELSE Len(ExportCalls))
    IN  /\ trace' = Outcomes(made, fail)
        /\ artifact' = Written(made, fail)

M2O_on_train_end(fail) ==
    /\ trace' = Outcomes(CallsUpTo(fail), fail)
    /\ artifact' = Written(CallsUpTo(fail), fail)

\* on_train_end raises when one of the calls it makes raises
M2O_raises(fail) == has(M2O_calls, fail)

(***************************************************************************)
(* The training loop.  It holds a list of callbacks and calls each hook on *)
(* every callback of the list: on_train_begin first in a run, on_epoch_end *)
(* once per epoch with increasing epoch indices, on_train_end last; once   *)
(* the loop sees stop_training after an epoch it runs no further epoch.    *)
(* on_epoch_end can also be called on callbacks no run has initialised.    *)
(* A callback that is not in the list is constructed with its default      *)
(* arguments and never called.                                             *)
(***************************************************************************)
Init ==
    /\ callbacks \in CallbackLists
    /\ IF installed("EarlyStopping")
       THEN /\ es_mode \in Modes
            /\ es_min_delta \in 0..MaxDelta
            /\ es_patience \in 0..MaxPatience
            /\ es_verbose \in BOOLEAN
       ELSE /\ es_mode = "max_equal"
            /\ es_min_delta = 0
            /\ es_patience = 0
            /\ es_verbose = FALSE
    /\ es_wait = NoneInt
    /\ es_stopped_epoch = NoneInt
    /\ es_best = None
    /\ IF installed("ModelCheckpoint")
       THEN /\ mc_mode \in Modes
            /\ mc_save_best_only \in BOOLEAN
            /\ mc_verbose \in BOOLEAN
       ELSE /\ mc_mode = "min"
            /\ mc_save_best_only = TRUE
            /\ mc_verbose = FALSE
    /\ mc_best = None
    /\ stop_training = FALSE
    /\ saves = 0
    /\ phase = "constructed"
    /\ run = 0
    /\ initial_epoch = 0
    /\ calls = 0
    /\ hook = "__init__"
    /\ logs = << >>
    /\ raised = FALSE
    /\ seen = << >>
    /\ seen_at = << >>
    /\ saved = 0
    /\ saved_epoch = NoneInt
    /\ report = NoReport
    /\ IF installed("TensorBoard")
       THEN /\ param_groups \in ParamGroups
            /\ named_parameters \in NamedParameters
       ELSE /\ param_groups = << >>
            /\ named_parameters = << >>
    /\ tb_writer = NoWriter
    /\ writers = 0
    /\ tb_closed = FALSE
    /\ sink = << >>
    /\ IF installed("Model2onnx")
       THEN m2o_metadata \in Metadata
       ELSE m2o_metadata = [type |-> "NoneType", items |-> << >>]
    /\ trace = << >>
    /\ artifact = NoArtifact

on_train_begin ==
    /\ \/ phase \in {"constructed", "ended"} /\ run < MaxRuns
       \/ phase = "running" /\ installed("TensorBoard")
    /\ IF installed("EarlyStopping")
       THEN ES_on_train_begin
       ELSE UNCHANGED es_state
    /\ IF installed("ModelCheckpoint")
       THEN MC_on_train_begin
       ELSE UNCHANGED mc_best
    /\ IF installed("TensorBoard")
       THEN TB_on_train_begin
       ELSE UNCHANGED tb_state
    /\ IF phase = "running"
       THEN UNCHANGED <<initial_epoch, run, calls>>
       ELSE /\ \E ie \in InitialEpochs : initial_epoch' = ie
            /\ run' = run + 1
            /\ calls' = 0
    /\ phase' = "running"
    /\ sink' = << >>
    /\ trace' = << >>
    /\ hook' = "on_train_begin"
    /\ logs' = << >>
    /\ raised' = FALSE
    /\ saves' = 0
    /\ seen' = << >>
    /\ seen_at' = << >>
    /\ saved' = 0
    /\ saved_epoch' = NoneInt
    /\ report' = NoReport
    /\ UNCHANGED <<config, stop_training, artifact>>

on_epoch_end ==
    /\ phase \in {"constructed", "running"}
    /\ calls < MaxEpochs
    /\ \E lg \in EpochLogs :
        LET epoch == initial_epoch + calls
            current == get_monitor_value(lg, monitor)
        IN  /\ IF installed("EarlyStopping")
               THEN ES_on_epoch_end(epoch, lg)
               ELSE UNCHANGED <<es_state, stop_training>>
            /\ IF installed("ModelCheckpoint")
               THEN MC_on_epoch_end(epoch, lg)
               ELSE /\ report' = NoReport
                    /\ UNCHANGED <<mc_best, mc_out>>
            /\ IF installed("TensorBoard")
               THEN TB_on_epoch_end(epoch, lg)
               ELSE /\ sink' = << >>
                    /\ UNCHANGED tb_state
            /\ raised' = \/ installed("EarlyStopping") /\ ES_raises(lg)
                         \/ installed("ModelCheckpoint") /\ MC_raises(lg)
                         \/ installed("TensorBoard") /\ TB_raises(lg)
            /\ logs' = lg
            /\ seen' = IF phase = "running" /\ monitoring /\ current # None
                       THEN Append(seen, current)
                       ELSE seen
            /\ seen_at' = IF phase = "running" /\ monitoring /\ current # None
                          THEN Append(seen_at, epoch)
                          ELSE seen_at
    /\ phase' = IF phase = "running" /\ stop_training' THEN "stopping" ELSE phase
    /\ calls' = calls + 1
    /\ hook' = "on_epoch_end"
    /\ trace' = << >>
    /\ UNCHANGED <<config, run, initial_epoch, artifact>>

on_train_end ==
    /\ phase \in {"running", "stopping"}
    /\ IF installed("EarlyStopping")
       THEN ES_on_train_end
       ELSE /\ report' = NoReport
            /\ UNCHANGED es_state
    /\ IF installed("TensorBoard")
       THEN TB_on_train_end
       ELSE /\ sink' = << >>
            /\ UNCHANGED tb_state
    /\ \E fail \in {"none"} \cup Range(ExportCalls \o MetadataCalls) :
            IF installed("Model2onnx")
            THEN /\ M2O_on_train_end(fail)
                 /\ raised' = M2O_raises(fail)
            ELSE /\ fail = "none"
                 /\ raised' = FALSE
                 /\ UNCHANGED m2o_out
    /\ phase' = "ended"
    /\ hook' = "on_train_end"
    /\ saves' = 0
    /\ UNCHANGED <<config, mc_best, stop_training, run, initial_epoch,
                   calls, logs, seen, seen_at, saved, saved_epoch>>

\* between two runs the owner of the loop may clear the flag
reset_stop_training ==
    /\ phase = "ended"
    /\ stop_training
    /\ stop_training' = FALSE
    /\ hook' = "reset"
    /\ UNCHANGED <<config, es_state, mc_best, mc_out, phase, run,
                   initial_epoch, calls, logs, raised, seen, seen_at, report,
                   tb_state, sink, m2o_out>>

Next ==
    \/ on_train_begin
    \/ on_epoch_end
    \/ on_train_end
    \/ reset_stop_training

Spec == Init /\ [][Next]_vars

(***************************************************************************)
(* Construction.  The constructors take any string as mode; each assigns   *)
(* its arguments and raises ValueError for a mode it does not know, and    *)
(* then there is no callback to call.                                      *)
(***************************************************************************)
\* the modes passed to the constructors: the four modes and another string
ModeArgs == Modes \cup {"auto"}

\* a constructor without the test of the mode
valid_mode_any(mode) == TRUE

\* the test of the mode both constructors make
valid_mode(mode) == mode \in {"min", "max", "max_equal", "min_equal"}

\* the arguments are chosen, no constructor has run
InitArgs ==
    /\ callbacks \in CallbackLists
    /\ IF installed("EarlyStopping")
       THEN /\ es_mode \in ModeArgs
            /\ es_min_delta \in 0..MaxDelta
            /\ es_patience \in 0..MaxPatience
            /\ es_verbose \in BOOLEAN
       ELSE /\ es_mode = "max_equal"
            /\ es_min_delta = 0
            /\ es_patience = 0
            /\ es_verbose = FALSE
    /\ es_wait = NoneInt
    /\ es_stopped_epoch = NoneInt
    /\ es_best = None
    /\ IF installed("ModelCheckpoint")
       THEN /\ mc_mode \in ModeArgs
            /\ mc_save_best_only \in BOOLEAN
            /\ mc_verbose \in BOOLEAN
       ELSE /\ mc_mode = "min"
            /\ mc_save_best_only = TRUE
            /\ mc_verbose = FALSE
    /\ mc_best = None
    /\ stop_training = FALSE
    /\ saves = 0
    /\ phase = "new"
    /\ run = 0
    /\ initial_epoch = 0
    /\ calls = 0
    /\ hook = "new"
    /\ logs = << >>
    /\ raised = FALSE
    /\ seen = << >>
    /\ seen_at = << >>
    /\ saved = 0
    /\ saved_epoch = NoneInt
    /\ report = NoReport
    /\ IF installed("TensorBoard")
       THEN /\ param_groups \in ParamGroups
            /\ named_parameters \in NamedParameters
       ELSE /\ param_groups = << >>
            /\ named_parameters = << >>
    /\ tb_writer = NoWriter
    /\ writers = 0
    /\ tb_closed = FALSE
    /\ sink = << >>
    /\ IF installed("Model2onnx")
       THEN m2o_metadata \in Metadata
       ELSE m2o_metadata = [type |-> "NoneType", items |-> << >>]
    /\ trace = << >>
    /\ artifact = NoArtifact

\* __init__ of the callbacks of the list
construct ==
    /\ phase = "new"
    /\ LET ok == /\ installed("EarlyStopping") => valid_mode(es_mode)
                 /\ installed("ModelCheckpoint") => valid_mode(mc_mode)
       IN  /\ phase' = IF ok THEN "constructed" ELSE "failed"
           /\ raised' = ~ok
    /\ hook' = "__init__"
    /\ UNCHANGED <<config, es_state, mc_best, mc_out, stop_training, run,
                   initial_epoch, calls, logs, seen, seen_at, report,
                   tb_state, sink, m2o_out>>

NextConstruct == construct \/ Next

SpecConstruct == InitArgs /\ [][NextConstruct]_vars

TypeOK ==
    /\ es_mode \in Modes
    /\ mc_mode \in Modes
    /\ es_wait \in {NoneInt} \cup (0..(MaxEpochs + 1))
    /\ es_best \in Values \cup {None}
    /\ mc_best \in Values \cup {None}
    /\ phase \in {"constructed", "running", "stopping", "ended"}

(***************************************************************************)
(* Vocabulary of the properties.                                           *)
(*                                                                         *)
(* The improvement table: floats other than NaN are placed on the integer  *)
(* line, the infinities beyond every finite value the model computes, and  *)
(* compared there; b - d and b + d leave an infinite b where it is.        *)
(***************************************************************************)
Huge == MaxValue + MaxDelta + 1

Shifted(b, d) == IF IsFinite(b) THEN b.v + d ELSE b.v * Huge

TableImproves(m, c, b, d) ==
    /\ ~IsNaN(c)
    /\ ~IsNaN(b)
    /\ CASE m = "min" -> Shifted(c, 0) < Shifted(b, 0 - d)
         [] m = "max" -> Shifted(c, 0) > Shifted(b, d)
         [] m = "min_equal" -> Shifted(c, 0) <= Shifted(b, 0 - d)
         [] m = "max_equal" -> Shifted(c, 0) >= Shifted(b, d)

\* the best a run starts from: +infinity for min and min_equal, else -infinity
StartBest(m) == IF m \in {"min", "min_equal"} THEN PosInf ELSE NegInf

\* the best value and the number of trailing non-improving values after the
\* values s have been observed in a run, by the improvement table
RECURSIVE RunState(_, _, _)
RunState(s, m, d) ==
    IF s = << >>
    THEN [best |-> StartBest(m), idle |-> 0]
    ELSE LET p == RunState(SubSeq(s, 1, Len(s) - 1), m, d)
             x == s[Len(s)]
         IN  IF TableImproves(m, x, p.best, d)
             THEN [best |-> x, idle |-> 0]
             ELSE [best |-> p.best, idle |-> p.idle + 1]

\* the step is an on_epoch_end call of a run, dispatched to the callback cb
EpochEndCall(cb) ==
    /\ installed(cb)
    /\ phase = "running"
    /\ calls' = calls + 1

\* the monitored value of the log that call passes, and its epoch argument
Current == get_monitor_value(logs', monitor)
Epoch == initial_epoch + calls

\* the state is that of a run of the callback cb
InRun(cb) == installed(cb) /\ phase \in {"running", "stopping", "ended"}

\* the last hook called was on_epoch_end with an available monitored value
AfterValue == hook = "on_epoch_end" /\ get_monitor_value(logs, monitor) # None

\* C1: in every mode, an on_epoch_end call of EarlyStopping with an available
\* value c sets best = c and wait = 0 if and only if the table predicate
\* holds of c, the best before the call and min_delta (min: c < b - d,
\* max: c > b + d, min_equal: c <= b - d, max_equal: c >= b + d).
C1_ImprovementTable ==
    [][(EpochEndCall("EarlyStopping") /\ Current # None)
        => ((es_best' = Current /\ es_wait' = 0)
            <=> TableImproves(es_mode, Current, es_best, es_min_delta))]_vars

\* the boundary c = b - d, reached in mode min_equal and taken as an improvement
C1_Witness ==
    /\ InRun("EarlyStopping")
    /\ es_mode = "min_equal"
    /\ es_min_delta = 1
    /\ seen = <<Num(1), Num(0)>>
    /\ es_best = Num(0)
    /\ es_wait = 0

\* C2: after on_train_begin, wait is an integer >= 0 and equals the number of
\* consecutive on_epoch_end calls with an available, non-improving value since
\* the last improvement (or since on_train_begin): each such call adds exactly
\* 1 and each improvement sets it to 0.
C2_WaitCountsIdleEpochs ==
    InRun("EarlyStopping")
        => /\ es_wait \in Nat
           /\ es_wait = RunState(seen, es_mode, es_min_delta).idle

\* wait went 0, 1 and back to 0 on the third value
C2_Witness ==
    /\ InRun("EarlyStopping")
    /\ es_mode = "min"
    /\ es_min_delta = 0
    /\ seen = <<Num(1), Num(1), Num(0)>>
    /\ es_wait = 0

\* C3: an on_epoch_end call of EarlyStopping sets stopped_epoch = epoch and
\* stop_training = true exactly when the value is available, is no improvement
\* and wait + 1 >= patience; every other call leaves both as they were.
C3_StopExactlyAtPatience ==
    [][EpochEndCall("EarlyStopping")
        => LET stops ==
                /\ Current # None
                /\ ~TableImproves(es_mode, Current, es_best, es_min_delta)
                /\ es_wait + 1 >= es_patience
           IN  IF stops
               THEN es_stopped_epoch' = Epoch /\ stop_training' = TRUE
               ELSE /\ es_stopped_epoch' = es_stopped_epoch
                    /\ stop_training' = stop_training]_vars

\* the stop recorded at the third call of a run with patience 2
C3_Witness ==
    /\ InRun("EarlyStopping")
    /\ AfterValue
    /\ es_patience = 2
    /\ es_wait = 2
    /\ calls = 3
    /\ stop_training
    /\ es_stopped_epoch = initial_epoch + 2

\* C4: within a run stopped_epoch leaves the not-stopped sentinel (0) at most
\* once, and it does so exactly at the on_epoch_end call that increments wait
\* to a value >= patience; once it holds an epoch index it keeps it until the
\* next on_train_begin.
C4_StoppedEpochSetOnceAtPatience ==
    [][/\ EpochEndCall("EarlyStopping")
            => ((es_stopped_epoch = 0 /\ es_stopped_epoch' # 0)
                <=> (es_wait' = es_wait + 1 /\ es_wait' >= es_patience))
       /\ (installed("EarlyStopping") /\ es_stopped_epoch > 0 /\ run' = run)
            => es_stopped_epoch' = es_stopped_epoch]_vars

\* every value the run has observed so far is the same one
Constant(s) == \A i \in 1..Len(s) : s[i] = s[1]

\* a first run of EarlyStopping in mode min with min_delta = 0 and
\* patience >= 1 in which every call so far passed the same monitored value
ConstantRun ==
    /\ installed("EarlyStopping")
    /\ phase \in {"running", "stopping"}
    /\ run = 1
    /\ es_mode = "min"
    /\ es_min_delta = 0
    /\ es_patience >= 1
    /\ Len(seen) = calls
    /\ Constant(seen)

\* C5 as stated: with patience p >= 1, mode min and min_delta = 0, a constant
\* monitored sequence signals the stop at call p + 1 and at no earlier call.
C5_ConstantSequenceStopsAtCallPPlus1 ==
    ConstantRun => (stop_training <=> calls >= es_patience + 1)

\* C5 amended: the same for a constant sequence of any value other than
\* +infinity and NaN; wait is then the number of calls after the first.
C5_ConstantBelowInfStopsAtCallPPlus1 ==
    (ConstantRun /\ calls > 0 /\ seen[1] \notin {PosInf, NaN})
        => /\ stop_training <=> calls >= es_patience + 1
           /\ es_wait = calls - 1

\* patience 2 and the values 1, 1, 1: the stop is signalled at the third call
C5_Witness ==
    /\ ConstantRun
    /\ es_patience = 2
    /\ seen = <<Num(1), Num(1), Num(1)>>
    /\ es_wait = 2
    /\ stop_training

\* C6: with patience = 0, in every mode, the stop is signalled (stop_training
\* set, stopped_epoch = the epoch of the call) at the first on_epoch_end call
\* of the run whose available value is no improvement, and at no improving
\* call before it.
C6_PatienceZeroStopsAtFirstIdleEpoch ==
    (installed("EarlyStopping") /\ phase \in {"running", "stopping"}
        /\ run = 1 /\ es_patience = 0)
        => LET idle == RunState(seen, es_mode, es_min_delta).idle
           IN  /\ stop_training <=> idle > 0
               /\ stop_training
                    => /\ idle = 1
                       /\ get_monitor_value(logs, monitor) = seen[Len(seen)]
                       /\ es_stopped_epoch = initial_epoch + calls - 1
               /\ ~stop_training => es_stopped_epoch = 0

\* patience 0 in mode max: 0 improves, 1 improves, 1 does not and stops the run
C6_Witness ==
    /\ installed("EarlyStopping")
    /\ phase = "stopping"
    /\ run = 1
    /\ es_patience = 0
    /\ es_mode = "max"
    /\ seen = <<Num(0), Num(1), Num(1)>>
    /\ stop_training
    /\ es_stopped_epoch = initial_epoch + 2

\* C7: an on_epoch_end call whose log has no entry for the monitored name
\* returns without raising and changes nothing: best, wait and stopped_epoch
\* of EarlyStopping, best of ModelCheckpoint and stop_training keep their
\* values and the model's save is not called.
C7_AbsentMonitorChangesNothing ==
    [][(monitoring /\ calls' = calls + 1 /\ logs_get(logs', monitor) = None)
        => /\ es_state' = es_state
           /\ stop_training' = stop_training
           /\ mc_best' = mc_best
           /\ saves' = 0
           /\ ~raised']_vars

\* a call without the monitored name made while wait is 1 and best is finite
C7_Witness ==
    /\ installed("EarlyStopping")
    /\ phase = "running"
    /\ hook = "on_epoch_end"
    /\ logs_get(logs, monitor) = None
    /\ es_wait = 1
    /\ IsFinite(es_best)

\* C8: on_train_begin leaves EarlyStopping with wait = 0, stopped_epoch = 0
\* and best = +infinity (min, min_equal) or -infinity (max, max_equal), and
\* ModelCheckpoint with best set the same way, whatever an earlier run left;
\* in every run best is what the values of that run alone give.
C8_TrainBeginReinitialises ==
    /\ (hook = "on_train_begin" /\ installed("EarlyStopping"))
        => /\ es_wait = 0
           /\ es_stopped_epoch = 0
           /\ es_best = StartBest(es_mode)
    /\ (hook = "on_train_begin" /\ installed("ModelCheckpoint"))
        => mc_best = StartBest(mc_mode)
    /\ InRun("EarlyStopping")
        => es_best = RunState(seen, es_mode, es_min_delta).best
    /\ InRun("ModelCheckpoint")
        => mc_best = RunState(seen, mc_mode, 0).best

\* the on_train_begin of a second run that follows a run stopped early
C8_Witness ==
    /\ installed("EarlyStopping")
    /\ hook = "on_train_begin"
    /\ run = 2
    /\ stop_training
    /\ es_wait = 0
    /\ es_best = StartBest(es_mode)

\* the state right after the call that passed the first value of a run
AfterFirstValue ==
    /\ phase \in {"running", "stopping"}
    /\ AfterValue
    /\ Len(seen) = 1

\* what the first value does when it is taken as an improvement
FirstValueRecorded ==
    /\ installed("EarlyStopping")
        => /\ es_best = seen[1]
           /\ es_wait = 0
           /\ es_stopped_epoch = 0
           /\ run = 1 => ~stop_training
    /\ installed("ModelCheckpoint")
        => /\ mc_best = seen[1]
           /\ saves = 1

\* C9 as stated: in every mode the first monitored value after on_train_begin
\* is recorded as an improvement: EarlyStopping sets best to it with wait = 0
\* and does not stop, ModelCheckpoint sets best to it and saves.
C9_FirstValueAlwaysImproves == AfterFirstValue => FirstValueRecorded

\* the first values the amended claim covers: not NaN and, in the strict
\* modes, not the infinity best starts from
Improvable(m, x) ==
    /\ ~IsNaN(x)
    /\ m = "min" => x # PosInf
    /\ m = "max" => x # NegInf

\* C9 amended: the same for a first value that is not NaN and, in mode min,
\* not +infinity and, in mode max, not -infinity.
C9_FirstImprovableValueImproves ==
    (AfterFirstValue
        /\ Improvable(IF installed("EarlyStopping") THEN es_mode ELSE mc_mode,
                      seen[1]))
        => FirstValueRecorded

\* a finite first value with patience 0 and min_delta 1: recorded, no stop
C9_Witness ==
    /\ AfterFirstValue
    /\ installed("EarlyStopping")
    /\ es_patience = 0
    /\ es_min_delta = 1
    /\ seen = <<Num(1)>>
    /\ es_best = Num(1)
    /\ ~stop_training

\* the value of an on_epoch_end call of ModelCheckpoint is an improvement
MCImproving ==
    /\ Current # None
    /\ TableImproves(mc_mode, Current, mc_best, 0)

\* C10 as stated: with save_best_only = true a call that is no improvement
\* never calls the model's save; with save_best_only = false every
\* on_epoch_end call calls it exactly once.
C10_SaveBestOnlyOrEveryEpoch ==
    [][EpochEndCall("ModelCheckpoint")
        => /\ (mc_save_best_only /\ ~MCImproving) => saves' = 0
           /\ ~mc_save_best_only => saves' = 1]_vars

\* C10 amended: with save_best_only = false every on_epoch_end call in which
\* the monitored value is available calls the model's save exactly once (a
\* call without the monitored value saves nothing); the rest as stated.
C10_SaveBestOnlyOrEveryAvailableEpoch ==
    [][EpochEndCall("ModelCheckpoint")
        => /\ (mc_save_best_only /\ ~MCImproving) => saves' = 0
           /\ (~mc_save_best_only /\ Current # None) => saves' = 1
           /\ Current = None => saves' = 0]_vars

\* save_best_only = false: the second value is no improvement and is saved
C10_Witness ==
    /\ installed("ModelCheckpoint")
    /\ phase = "running"
    /\ AfterValue
    /\ ~mc_save_best_only
    /\ mc_mode = "min"
    /\ seen = <<Num(0), Num(1)>>
    /\ mc_best = Num(0)
    /\ saves = 1

\* the state right after an on_epoch_end call of a run in which a verbose
\* ModelCheckpoint made the first save of the run
AfterFirstSave ==
    /\ installed("ModelCheckpoint")
    /\ phase = "running"
    /\ hook = "on_epoch_end"
    /\ mc_verbose
    /\ saves = 1
    /\ saved = 1

\* C11: ModelCheckpoint does not fabricate a previous best: the first save of
\* a run is reported without a previous value ("got"), so that its report
\* differs from that of an improvement over a best saved before, which carries
\* that best.
C11_FirstSaveReportedWithoutPrevious ==
    AfterFirstSave
        => /\ report.kind = "got"
           /\ report.previous = None

\* C13: on_train_end of EarlyStopping reports the stopping epoch if and only
\* if a stop was recorded in the run (wait was incremented to a value
\* >= patience, at any epoch index) and verbose is set; the epoch reported is
\* that of the call that stopped the run.
C13_TrainEndReportsEveryStop ==
    (installed("EarlyStopping") /\ hook = "on_train_end")
        => LET stopped == es_wait >= 1 /\ es_wait >= es_patience
           IN  /\ report.kind = "early stopping" <=> (stopped /\ es_verbose)
               /\ report.kind = "early stopping"
                    => report.epoch = initial_epoch + calls - 1

\* a strictly precedes b in the order of the mode (below for the min modes,
\* above for the max modes); NaN precedes nothing and nothing precedes NaN
Precedes(m, a, b) ==
    /\ ~IsNaN(a)
    /\ ~IsNaN(b)
    /\ IF m \in {"min", "min_equal"}
       THEN Shifted(a, 0) < Shifted(b, 0)
       ELSE Shifted(a, 0) > Shifted(b, 0)

\* x is the extremum of the values s: one of them, preceded by none
IsExtremum(m, x, s) ==
    /\ \E i \in 1..Len(s) : s[i] = x
    /\ \A i \in 1..Len(s) : ~Precedes(m, s[i], x)

\* the number of values of s that improve on the best of those before them
RECURSIVE Improvements(_, _)
Improvements(s, m) ==
    IF s = << >> THEN 0
    ELSE LET front == SubSeq(s, 1, Len(s) - 1)
         IN  Improvements(front, m)
                + (IF TableImproves(m, s[Len(s)], RunState(front, m, 0).best, 0)
                   THEN 1 ELSE 0)

\* the positions of s that hold x
Positions(s, x) == {i \in 1..Len(s) : s[i] = x}
First(S) == CHOOSE i \in S : \A j \in S : i <= j
Last(S) == CHOOSE i \in S : \A j \in S : i >= j

\* the saves of a run with save_best_only: as many as improving epochs, the
\* last one at the first (min, max) or last (min_equal, max_equal) epoch that
\* passed the best value
SavesFollowBest ==
    mc_save_best_only
        => /\ saved = Improvements(seen, mc_mode)
           /\ saved > 0
                => saved_epoch =
                    seen_at[IF mc_mode \in {"min", "max"}
                            THEN First(Positions(seen, mc_best))
                            ELSE Last(Positions(seen, mc_best))]

\* C18 as stated: in a run of ModelCheckpoint, best is the extremum of the
\* monitored values observed (minimum for min and min_equal, maximum for max
\* and max_equal), the saves with save_best_only are as many as the improving
\* epochs, and the last of them was made at the first epoch that attained the
\* extremum in the strict modes and at the last such epoch in the others.
C18_BestIsExtremumOfObserved ==
    (InRun("ModelCheckpoint") /\ seen # << >>)
        => /\ IsExtremum(mc_mode, mc_best, seen)
           /\ SavesFollowBest

\* the values of s that are not NaN
NotNaN(s) == SelectSeq(s, LAMBDA x : ~IsNaN(x))

\* C18 amended: best is the extremum of the observed values that are not NaN,
\* and the infinity on_train_begin set when every observed value is NaN; the
\* rest as stated.
C18_BestIsExtremumOfObservedNumbers ==
    (InRun("ModelCheckpoint") /\ seen # << >>)
        => /\ IF NotNaN(seen) = << >>
              THEN mc_best = StartBest(mc_mode)
              ELSE IsExtremum(mc_mode, mc_best, NotNaN(seen))
           /\ SavesFollowBest

\* min_equal and save_best_only: 1, 0, 0 are three improvements, the last
\* save is that of the third epoch
C18_Witness ==
    /\ InRun("ModelCheckpoint")
    /\ mc_save_best_only
    /\ mc_mode = "min_equal"
    /\ seen = <<Num(1), Num(0), Num(0)>>
    /\ mc_best = Num(0)
    /\ saved = 3
    /\ saved_epoch = initial_epoch + 2

\* what an on_epoch_end call with the value c at the epoch e makes of best,
\* wait, stopped_epoch and stop_training when every non-improving epoch stops
StopAtOnce(c, e) ==
    IF c = None THEN <<es_best, es_wait, es_stopped_epoch, stop_training>>
    ELSE IF TableImproves(es_mode, c, es_best, es_min_delta)
    THEN <<c, 0, es_stopped_epoch, stop_training>>
    ELSE <<es_best, es_wait + 1, e, TRUE>>

\* C19: EarlyStopping with patience 0 and with patience 1 behave alike: from
\* the same best, wait, stopped_epoch and stop_training every hook call leads
\* both to the same values, which do not depend on patience (both stop at the
\* first epoch that is no improvement).
C19_PatienceZeroAndOneAlike ==
    [][(installed("EarlyStopping") /\ es_patience <= 1)
        => /\ EpochEndCall("EarlyStopping")
                => <<es_best', es_wait', es_stopped_epoch', stop_training'>>
                    = StopAtOnce(Current, Epoch)
           /\ run' = run + 1
                => <<es_best', es_wait', es_stopped_epoch', stop_training'>>
                    = <<StartBest(es_mode), 0, 0, stop_training>>
           /\ hook' = "on_train_end"
                => <<es_best', es_wait', es_stopped_epoch', stop_training'>>
                    = <<es_best, es_wait, es_stopped_epoch, stop_training>>]_vars

\* patience 1 stopped the run at its second value, the first non-improving one
C19_Witness ==
    /\ installed("EarlyStopping")
    /\ phase = "stopping"
    /\ run = 1
    /\ es_patience = 1
    /\ es_mode = "min"
    /\ seen = <<Num(0), Num(1)>>
    /\ es_wait = 1
    /\ stop_training
    /\ es_stopped_epoch = initial_epoch + 1

\* C20: no hook of EarlyStopping clears stop_training: once set, the flag
\* stays set through improving epochs and through the on_train_begin of a
\* following run, until the owner of the loop resets it.
C20_FlagNeverClearedByHooks ==
    [][(stop_training /\ ~stop_training') => hook' = "reset"]_vars

\* a second run started with the flag still set: its first value improves and
\* the flag is still set
C20_Witness ==
    /\ installed("EarlyStopping")
    /\ run = 2
    /\ AfterFirstValue
    /\ es_wait = 0
    /\ es_best = seen[1]
    /\ stop_training

\* the four modes of the specification
FourModes == {"min", "max", "min_equal", "max_equal"}

\* C12: constructing EarlyStopping or ModelCheckpoint with a mode outside the
\* four modes raises and yields no instance (no hook is ever called on it, no
\* other mode is put in its place); constructing with one of the four modes
\* does not raise.
C12_UnknownModeRejected ==
    [][/\ phase = "new"
            => LET mode == IF installed("EarlyStopping") THEN es_mode
                           ELSE mc_mode
               IN  /\ mode \notin FourModes => (phase' = "failed" /\ raised')
                   /\ mode \in FourModes
                        => (phase' = "constructed" /\ ~raised')
                   /\ es_mode' = es_mode
                   /\ mc_mode' = mc_mode
       /\ phase = "failed" => FALSE]_vars

\* EarlyStopping(mode="auto") has raised
C12_Witness ==
    /\ installed("EarlyStopping")
    /\ es_mode = "auto"
    /\ phase = "failed"
    /\ raised

\* C14: TensorBoard.on_train_begin constructs a writer only when self.writer
\* is None: every call that finds a writer leaves the writer as it is and
\* constructs none, so after any number of calls exactly one writer has been
\* constructed.
C14_TrainBeginIdempotent ==
    [][(installed("TensorBoard") /\ hook' = "on_train_begin")
            => /\ writers' = 1
               /\ tb_writer' = 1
               /\ tb_writer # NoWriter => UNCHANGED tb_state]_vars

\* on_train_begin has been called again after epochs of the same run
C14_Witness ==
    /\ installed("TensorBoard")
    /\ hook = "on_train_begin"
    /\ phase = "running"
    /\ calls > 0
    /\ writers = 1
    /\ tb_writer = 1

\* the rewritten keys: the key without a leading "val_", its first character
\* in upper case and the others in lower case, then "/test" for a key with
\* the prefix and "/train" for any other
Rewritten(key) ==
    CASE key = key_loss -> <<"L", "o", "s", "s", "/", "t", "r", "a", "i", "n">>
      [] key = key_val_loss -> <<"L", "o", "s", "s", "/", "t", "e", "s", "t">>
      [] key = key_CER -> <<"C", "e", "r", "/", "t", "r", "a", "i", "n">>
      [] key = key_val_CER -> <<"C", "e", "r", "/", "t", "e", "s", "t">>
      [] key = key_val_ -> <<"/", "t", "e", "s", "t">>
      [] key = key_Val_loss ->
            <<"V", "a", "l", "_", "l", "o", "s", "s", "/", "t", "r", "a",
              "i", "n">>

\* TensorBoard.on_epoch_end has returned
TBEmitted ==
    /\ installed("TensorBoard")
    /\ hook = "on_epoch_end"
    /\ tb_writer # NoWriter

\* C17: the calls TensorBoard.on_epoch_end makes on the writer are, in this
\* order: for each entry of the log, in insertion order, one add_scalar of the
\* value under the rewritten key at the epoch; then one add_scalar
\* "learning_rate" per param group; then one add_histogram per named parameter.
C17_ScalarsThenLrThenHistograms ==
    TBEmitted =>
        LET n == Len(logs)
            g == Len(param_groups)
            e == initial_epoch + calls - 1
        IN  /\ Len(sink) = n + g + Len(named_parameters)
            /\ \A i \in 1..Len(sink) :
                IF i <= n
                THEN sink[i] = Call("add_scalar", Rewritten(logs[i].key),
                                    logs[i].value, e)
                ELSE IF i <= n + g
                THEN sink[i] = Call("add_scalar", learning_rate,
                                    param_groups[i - n], e)
                ELSE sink[i] = Call("add_histogram",
                                    named_parameters[i - n - g].key,
                                    named_parameters[i - n - g].value, e)

\* a log of three entries, two param groups and two parameters were emitted
C17_Witness ==
    /\ TBEmitted
    /\ Len(logs) = 3
    /\ logs[1].key = key_val_CER
    /\ Len(param_groups) = 2
    /\ Len(named_parameters) = 2
    /\ Len(sink) = 7
    /\ sink[1].step = 1

\* Model2onnx.on_train_end was called last
M2OEnded == installed("Model2onnx") /\ hook = "on_train_end"

\* the call c is in the trace
Called(c) == \E i \in 1..Len(trace) : trace[i].call = c

\* the place of the call c in the trace
Place(c) == CHOOSE i \in 1..Len(trace) : trace[i].call = c

\* C15: after Model2onnx.on_train_end has returned, metadata is in the file
\* only by onnx.load and onnx.save called after torch.onnx.export; with a dict
\* as metadata every item of it is a metadata record of the file; with no
\* metadata neither onnx.load nor onnx.save was called and the file has no
\* metadata record.
C15_MetadataBySeparateResave ==
    (M2OEnded /\ ~raised) =>
        /\ artifact.metadata_props # << >>
            => /\ Called("torch.onnx.export")
               /\ Called("onnx.load")
               /\ Called("onnx.save")
               /\ Place("torch.onnx.export") < Place("onnx.load")
               /\ Place("onnx.load") < Place("onnx.save")
        /\ m2o_metadata.type = "dict"
            => Range(m2o_metadata.items) \subseteq Range(artifact.metadata_props)
        /\ m2o_metadata.type = "NoneType"
            => /\ ~Called("onnx.load")
               /\ ~Called("onnx.save")
               /\ artifact.metadata_props = << >>

\* a dict of two items has been written to the file
C15_Witness ==
    /\ M2OEnded
    /\ ~raised
    /\ Len(m2o_metadata.items) = 2
    /\ artifact.metadata_props = m2o_metadata.items
    /\ Len(trace) = 7

\* the steps in their order
Steps ==
    <<"torch.load", "to", "eval", "torch.randn", "torch.onnx.export",
      "onnx.load", "onnx.save">>

\* C16: the calls Model2onnx.on_train_end has made are the first steps of
\* load, to cpu, eval, randn, export, onnx.load, onnx.save, in this order; a
\* call that raised is the last call made, on_train_end raised with it, and
\* the file is as it was unless the export returned.
C16_FixedOrderAbortOnFailure ==
    [][(installed("Model2onnx") /\ hook' = "on_train_end")
            => /\ Len(trace') <= Len(Steps)
               /\ \A i \in 1..Len(trace') :
                    /\ trace'[i].call = Steps[i]
                    /\ trace'[i].outcome = "raised" => i = Len(trace')
               /\ raised' <=> (\E i \in 1..Len(trace') :
                                    trace'[i].outcome = "raised")
               /\ ~raised' => Len(trace') >= 5
               /\ (\A i \in 1..Len(trace') :
                        trace'[i].call = "torch.onnx.export"
                            => trace'[i].outcome = "raised")
                    => artifact' = artifact]_vars

\* torch.load returned and the call after it raised
C16_Witness ==
    /\ M2OEnded
    /\ raised
    /\ Len(trace) = 2
    /\ trace[2].outcome = "raised"
    /\ ~artifact.exists

=============================================================================
